---- MODULE Spec2Model ----
(***************************************************************************)
(* A model of koordinator's scheduler plugins:                             *)
(*   - loadaware (pkg/scheduler/plugins/loadaware/load_aware.go): the      *)
(*     resource estimator, the pod assignment tracker as Reserve,          *)
(*     Unreserve and Score use it, and the node scorer;                    *)
(*   - batchresource (the BatchResourceFit filter).                        *)
(*                                                                         *)
(* Quantities (resource.Quantity) are integers counting milli-units, so    *)
(* that MilliValue() and Value() are different conversions.  Time is an    *)
(* integer counting half seconds (Second = 2 ticks).                       *)
(***************************************************************************)
EXTENDS Integers, Naturals, Sequences, FiniteSets, TLC

VARIABLES
    podInfoItems,   \* podAssignCache.podInfoItems: node -> sequence of [pod, timestamp]
    now,            \* the scheduler's clock (time.Now), in ticks
    args,           \* the inputs of the operation under evaluation
    ret,            \* what the operation returned ("none" before it ran)
    apiPods,        \* the cluster's pods: pod -> [phase, nodeName]
    cycle,          \* the scheduling loop's position for each pod: pod -> [stage, nodeName]
    events,         \* the informer's notifications not yet delivered, oldest first
    reported        \* the pods whose deletion or departure has been notified

vars == <<podInfoItems, now, args, ret, apiPods, cycle, events, reported>>

----------------------------------------------------------------------------
(* Generic helpers *)

Min(a, b) == IF a < b THEN a ELSE b

\* Go's integer division truncates toward zero; \div floors.
TruncDiv(a, b) ==
    IF (a >= 0 /\ b > 0) \/ (a <= 0 /\ b < 0) THEN (IF a >= 0 THEN a ELSE -a) \div (IF b >= 0 THEN b ELSE -b)
    ELSE -((IF a >= 0 THEN a ELSE -a) \div (IF b >= 0 THEN b ELSE -b))

\* A Go map read: the zero value when the key is absent.
MapGet(m, k) == IF k \in DOMAIN m THEN m[k] ELSE 0

NoRet == [op |-> "none"]

\* A Go pointer: <<>> is nil, <<v>> points to v.
Nil == <<>>
Ptr(v) == <<v>>
Deref(p) == p[1]

----------------------------------------------------------------------------
(* Bounds of the model *)

\* Quantities are drawn from multiples of 50 up to 50 * MaxQtySteps, as
\* milli-units and as whole units.
MaxQtySteps == 4

\* The scorer's used and allocatable amounts are drawn from -1..MaxAmount,
\* its weights from 0..MaxWeight.
MaxAmount == 4
MaxWeight == 2

\* Batch-tier amounts are drawn from the multiples of 150 up to
\* 150 * MaxBatchSteps, and 800 and 1000.
MaxBatchSteps == 2

\* Snapshots declare a report interval of 0..MaxIntervalSeconds seconds.
MaxIntervalSeconds == 2

\* NodeMetricExpirationSeconds, when set, is 0..MaxExpirationSeconds.
MaxExpirationSeconds == 2

\* The scheduler's clock runs from 0 to MaxNow ticks.
MaxNow == 2

----------------------------------------------------------------------------
(* Resource names and resource.Quantity *)

ResourceCPU == "cpu"
ResourceMemory == "memory"
BatchCPU == "kubernetes.io/batch-cpu"
BatchMemory == "kubernetes.io/batch-memory"
KoordBatchCPU == "koordinator.sh/batch-cpu"
KoordBatchMemory == "koordinator.sh/batch-memory"
OtherResource == "ephemeral-storage"

EstimatedResources == {ResourceCPU, ResourceMemory, BatchCPU, BatchMemory, OtherResource}

\* resource.Quantity.MilliValue(): the quantity in milli-units.
MilliValue(q) == q

\* resource.Quantity.Value(): the quantity in whole units, rounded up.
Value(q) == (q + 999) \div 1000

\* resource.Quantity.IsZero()
IsZero(q) == q = 0

\* resource.Quantity.Cmp(): -1, 0 or 1.
Cmp(a, b) == IF a < b THEN -1 ELSE IF a > b THEN 1 ELSE 0

\* int64(math.Round(float64(v) * float64(scalingFactor) / 100)) for v, scalingFactor >= 0:
\* halves round away from zero.
RoundScaled(v, scalingFactor) == (v * scalingFactor + 50) \div 100

----------------------------------------------------------------------------
(* The resource estimator *)

DefaultMilliCPURequest == 250
DefaultMemoryRequest == 200 * 1024 * 1024

\* The quantity estimatedUsedByResource works on, and the scaling factor it
\* applies: the limit at 100% when the limit exceeds the request, else the
\* request at the configured factor.
estimateBasis(requests, limits, resourceName, scalingFactor) ==
    LET limitQuantity == MapGet(limits, resourceName)
        requestQuantity == MapGet(requests, resourceName)
    IN  IF Cmp(limitQuantity, requestQuantity) > 0
        THEN [scalingFactor |-> 100, quantity |-> limitQuantity]
        ELSE [scalingFactor |-> scalingFactor, quantity |-> requestQuantity]

DefaultRequestMutant(resourceName) ==
    IF resourceName \in {ResourceCPU, BatchCPU, ResourceMemory, BatchMemory}
    THEN DefaultMilliCPURequest
    ELSE 0

\* The switch of the zero-quantity branch.
DefaultRequest(resourceName) ==
    IF resourceName \in {ResourceCPU, BatchCPU} THEN DefaultMilliCPURequest
    ELSE IF resourceName \in {ResourceMemory, BatchMemory} THEN DefaultMemoryRequest
    ELSE 0

\* Whether estimatedUsedByResource returns from its zero-quantity branch.
usesDefault(requests, limits, resourceName, scalingFactor) ==
    IsZero(estimateBasis(requests, limits, resourceName, scalingFactor).quantity)

estimatedUsedByResourceMutant(requests, limits, resourceName, scalingFactor) ==
    LET limitQuantity == MapGet(limits, resourceName)
        requestQuantity == MapGet(requests, resourceName)
        quantity == IF Cmp(limitQuantity, requestQuantity) > 0 THEN limitQuantity ELSE requestQuantity
    IN  IF IsZero(quantity) THEN DefaultRequest(resourceName)
        ELSE IF resourceName = ResourceCPU
        THEN Min(RoundScaled(MilliValue(quantity), scalingFactor), MilliValue(limitQuantity))
        ELSE Min(RoundScaled(Value(quantity), scalingFactor), Value(limitQuantity))

estimatedUsedByResource(requests, limits, resourceName, scalingFactor) ==
    LET limitQuantity == MapGet(limits, resourceName)
        basis == estimateBasis(requests, limits, resourceName, scalingFactor)
    IN  IF usesDefault(requests, limits, resourceName, scalingFactor)
        THEN DefaultRequest(resourceName)
        ELSE IF resourceName = ResourceCPU
        THEN Min(RoundScaled(MilliValue(basis.quantity), basis.scalingFactor),
                 MilliValue(limitQuantity))
        ELSE Min(RoundScaled(Value(basis.quantity), basis.scalingFactor),
                 Value(limitQuantity))

----------------------------------------------------------------------------
(* SpecEstimate: estimatedUsedByResource on drawn inputs *)

QtySteps == {50 * k : k \in 0..MaxQtySteps}

\* Milli-quantities: 0, 50m .. , whole units 50 .., and 1500m (a fraction
\* of a unit above one).
Quantities == QtySteps \cup {1000 * q : q \in QtySteps} \cup {1500}

ScalingFactorRange == 0..100

\* A ResourceList holding at most the one resource: absent, or present with a quantity.
ResourceLists(resourceName) ==
    {<<>>} \cup {(resourceName :> q) : q \in Quantities}

\* No pod, scheduling cycle or notification: the operation under evaluation
\* reads none of them.
LifecycleUnused == apiPods = <<>> /\ cycle = <<>> /\ events = <<>> /\ reported = {}

TrackerUnused == podInfoItems = <<>> /\ now = 0 /\ LifecycleUnused

EstimateInit ==
    /\ TrackerUnused
    /\ ret = NoRet
    /\ \E resourceName \in EstimatedResources, scalingFactor \in ScalingFactorRange :
         \E requests \in ResourceLists(resourceName), limits \in ResourceLists(resourceName) :
            args = [requests |-> requests, limits |-> limits,
                    resourceName |-> resourceName, scalingFactor |-> scalingFactor]

CallEstimatedUsedByResource ==
    /\ ret = NoRet
    /\ ret' = [op |-> "estimatedUsedByResource",
               usedDefault |-> usesDefault(args.requests, args.limits, args.resourceName, args.scalingFactor),
               estimatedUsed |-> estimatedUsedByResource(args.requests, args.limits,
                                                         args.resourceName, args.scalingFactor)]
    /\ UNCHANGED <<podInfoItems, now, args, apiPods, cycle, events, reported>>

EstimateNext == CallEstimatedUsedByResource

SpecEstimate == EstimateInit /\ [][EstimateNext]_vars

----------------------------------------------------------------------------
(* Claims about the resource estimator (checked under SpecEstimate) *)

EstimateReturned == ret.op = "estimatedUsedByResource"

\* The quantity in the unit the estimate is expressed in: milli-units for
\* cpu, whole units for every other resource.
UnitValue(resourceName, q) == IF resourceName = ResourceCPU THEN q ELSE (q + 999) \div 1000

ArgRequest == MapGet(args.requests, args.resourceName)
ArgLimit == MapGet(args.limits, args.resourceName)

\* C3: where the limit is not greater than the request and the request is
\* non-zero, the estimate is the request scaled by scalingFactor/100 and
\* rounded to nearest, reduced to the limit only when a limit exists.
C3_ScaledRequestClampedOnlyByExistingLimit ==
    (EstimateReturned /\ ArgLimit <= ArgRequest /\ ArgRequest # 0) =>
        LET scaled == (UnitValue(args.resourceName, ArgRequest) * args.scalingFactor + 50) \div 100
            limit == UnitValue(args.resourceName, ArgLimit)
        IN  ret.estimatedUsed =
                IF args.resourceName \in DOMAIN args.limits /\ scaled > limit THEN limit ELSE scaled

\* C4: where the limit is strictly greater than the request the estimate is
\* the limit, for every scaling factor in 0..100.
C4_LimitAboveRequestGivesLimit ==
    (EstimateReturned /\ ArgLimit > ArgRequest) =>
        ret.estimatedUsed = UnitValue(args.resourceName, ArgLimit)

C4_Witness ==
    /\ EstimateReturned
    /\ args.resourceName = ResourceCPU
    /\ ArgRequest = 50 /\ ArgLimit = 150 /\ args.scalingFactor = 33
    /\ ret.estimatedUsed = 150

\* C5: request and limit both zero or absent give the fixed default (250
\* for cpu and batch-cpu, 200*1024*1024 for memory and batch-memory, 0 for
\* any other resource) whatever the scaling factor, and the default branch
\* is taken in no other case.
C5_ZeroQuantityDefault ==
    EstimateReturned =>
        /\ ret.usedDefault <=> (ArgRequest = 0 /\ ArgLimit = 0)
        /\ (ArgRequest = 0 /\ ArgLimit = 0) =>
             ret.estimatedUsed =
                CASE args.resourceName \in {"cpu", "kubernetes.io/batch-cpu"} -> 250
                  [] args.resourceName \in {"memory", "kubernetes.io/batch-memory"} -> 200 * 1024 * 1024
                  [] OTHER -> 0

C5_Witness ==
    /\ EstimateReturned
    /\ args.resourceName = BatchMemory
    /\ args.requests = <<>> /\ args.limits = <<>> /\ args.scalingFactor = 70
    /\ ret.usedDefault /\ ret.estimatedUsed = 209715200

----------------------------------------------------------------------------
(* The node scorer *)

\* framework.MaxNodeScore
MaxNodeScore == 100

leastRequestedScoreMutant(requested, capacity) ==
    IF capacity = 0 THEN 0
    ELSE TruncDiv((capacity - requested) * MaxNodeScore, capacity)

leastRequestedScore(requested, capacity) ==
    IF capacity = 0 THEN 0
    ELSE IF requested > capacity THEN 0
    ELSE TruncDiv((capacity - requested) * MaxNodeScore, capacity)

\* The loop of loadAwareSchedulingScorer over the weight map's keys: the
\* accumulated nodeScore and weightSum (the sums do not depend on the order
\* in which Go ranges over the map).
RECURSIVE scorerLoop(_, _, _, _)
scorerLoop(names, resToWeightMap, used, allocatable) ==
    IF names = {} THEN [nodeScore |-> 0, weightSum |-> 0]
    ELSE LET resourceName == CHOOSE n \in names : TRUE
             weight == resToWeightMap[resourceName]
             resourceScore == leastRequestedScore(MapGet(used, resourceName),
                                                  MapGet(allocatable, resourceName))
             rest == scorerLoop(names \ {resourceName}, resToWeightMap, used, allocatable)
         IN  [nodeScore |-> rest.nodeScore + resourceScore * weight,
              weightSum |-> rest.weightSum + weight]

loadAwareSchedulingScorerMutant(resToWeightMap, used, allocatable) ==
    LET acc == scorerLoop(DOMAIN resToWeightMap, resToWeightMap, used, allocatable)
    IN  TruncDiv(acc.nodeScore, Cardinality(DOMAIN resToWeightMap))

\* nodeScore / weightSum; a zero weightSum is an integer division by zero,
\* which New's validation of the arguments rules out.
loadAwareSchedulingScorer(resToWeightMap, used, allocatable) ==
    LET acc == scorerLoop(DOMAIN resToWeightMap, resToWeightMap, used, allocatable)
    IN  TruncDiv(acc.nodeScore, acc.weightSum)

----------------------------------------------------------------------------
(* SpecScorer: leastRequestedScore and loadAwareSchedulingScorer on drawn inputs *)

Amounts == 0..MaxAmount
ScoredResources == {ResourceCPU, ResourceMemory}

\* Every map from a subset of the keys to the values.
MapsFrom(keys, values) == UNION {[ks -> values] : ks \in SUBSET keys}

RECURSIVE SumOfMap(_)
SumOfMap(m) ==
    IF DOMAIN m = {} THEN 0
    ELSE LET k == CHOOSE x \in DOMAIN m : TRUE
         IN  m[k] + SumOfMap([x \in DOMAIN m \ {k} |-> m[x]])

\* The weight maps New accepts: non-negative weights, a positive sum.
WeightMaps == {w \in MapsFrom(ScoredResources, 0..MaxWeight) : SumOfMap(w) > 0}

ScorerInit ==
    /\ TrackerUnused
    /\ ret = NoRet
    /\ \/ \E requested \in -1..MaxAmount, capacity \in -1..MaxAmount :
            args = [fn |-> "leastRequestedScore", requested |-> requested, capacity |-> capacity]
       \/ \E resToWeightMap \in WeightMaps :
            \E used \in MapsFrom(ScoredResources, Amounts),
               allocatable \in MapsFrom(ScoredResources, Amounts) :
               args = [fn |-> "loadAwareSchedulingScorer", resToWeightMap |-> resToWeightMap,
                       used |-> used, allocatable |-> allocatable]

CallLeastRequestedScore ==
    /\ ret = NoRet
    /\ args.fn = "leastRequestedScore"
    /\ ret' = [op |-> "leastRequestedScore",
               score |-> leastRequestedScore(args.requested, args.capacity)]
    /\ UNCHANGED <<podInfoItems, now, args, apiPods, cycle, events, reported>>

CallLoadAwareSchedulingScorer ==
    /\ ret = NoRet
    /\ args.fn = "loadAwareSchedulingScorer"
    /\ ret' = [op |-> "loadAwareSchedulingScorer",
               score |-> loadAwareSchedulingScorer(args.resToWeightMap, args.used, args.allocatable)]
    /\ UNCHANGED <<podInfoItems, now, args, apiPods, cycle, events, reported>>

ScorerNext == CallLeastRequestedScore \/ CallLoadAwareSchedulingScorer

SpecScorer == ScorerInit /\ [][ScorerNext]_vars

----------------------------------------------------------------------------
(* Claims about the node scorer (checked under SpecScorer) *)

\* C6: leastRequestedScore(U, C) is 0 whenever C = 0 or U > C; for C > 0
\* and 0 <= U <= C it is ((C - U) * 100) / C truncated, it does not increase
\* with U for fixed C, it is 100 at U = 0 and 0 at U = C.
C6_LeastRequestedScore ==
    ret.op = "leastRequestedScore" =>
        LET U == args.requested
            C == args.capacity
        IN  /\ (C = 0 \/ U > C) => ret.score = 0
            /\ (C > 0 /\ 0 <= U /\ U <= C) =>
                 /\ ret.score * C <= (C - U) * 100
                 /\ (C - U) * 100 < (ret.score + 1) * C
                 /\ \A V \in U..(MaxAmount + 1) : leastRequestedScore(V, C) <= ret.score
                 /\ U = 0 => ret.score = 100
                 /\ U = C => ret.score = 0

C6_Witness ==
    /\ ret.op = "leastRequestedScore"
    /\ args.requested = 2 /\ args.capacity = 3 /\ ret.score = 33

\* The per-resource score as the specification gives it.
SpecLeastRequested(U, C) == IF C = 0 \/ U > C THEN 0 ELSE ((C - U) * 100) \div C

\* C7: with non-negative weights of positive sum and non-negative used and
\* allocatable, the node score is the weighted sum of the per-resource
\* scores integer-divided by the sum of the weights; it lies in 0..100,
\* zero-weight resources do not change it, and with a single resource of
\* weight 1 it is that resource's leastRequestedScore.
C7_WeightedScore ==
    ret.op = "loadAwareSchedulingScorer" =>
        LET w == args.resToWeightMap
            W(r) == MapGet(w, r)
            S(r) == SpecLeastRequested(MapGet(args.used, r), MapGet(args.allocatable, r))
            positive == [r \in {x \in DOMAIN w : w[x] > 0} |-> w[r]]
        IN  /\ ret.score = (W("cpu") * S("cpu") + W("memory") * S("memory"))
                              \div (W("cpu") + W("memory"))
            /\ ret.score \in 0..100
            /\ ret.score = loadAwareSchedulingScorer(positive, args.used, args.allocatable)
            /\ \A r \in DOMAIN w :
                 (DOMAIN w = {r} /\ w[r] = 1) =>
                    ret.score = leastRequestedScore(MapGet(args.used, r), MapGet(args.allocatable, r))

C7_Witness ==
    /\ ret.op = "loadAwareSchedulingScorer"
    /\ args.resToWeightMap = [cpu |-> 2, memory |-> 1]
    /\ args.used = [cpu |-> 1, memory |-> 2]
    /\ args.allocatable = [cpu |-> 3, memory |-> 4]
    /\ ret.score = 60

----------------------------------------------------------------------------
(* The BatchResourceFit filter *)

\* framework.Resource.Add over ScalarResources: the sum per name.
AddScalars(acc, list) ==
    [n \in DOMAIN acc \cup DOMAIN list |-> MapGet(acc, n) + MapGet(list, n)]

\* framework.Resource.SetMaxResource over ScalarResources: the larger per name.
SetMaxScalars(acc, list) ==
    [n \in DOMAIN acc \cup DOMAIN list |->
        IF n \in DOMAIN list /\ list[n] > MapGet(acc, n) THEN list[n] ELSE MapGet(acc, n)]

RECURSIVE AddAll(_, _)
AddAll(acc, lists) ==
    IF lists = <<>> THEN acc ELSE AddAll(AddScalars(acc, Head(lists)), Tail(lists))

RECURSIVE SetMaxAll(_, _)
SetMaxAll(acc, lists) ==
    IF lists = <<>> THEN acc ELSE SetMaxAll(SetMaxScalars(acc, Head(lists)), Tail(lists))

\* pod.Spec.Overhead: <<>> when nil, else <<list>>.
NoOverhead == <<>>

\* podRequest of computePodBatchRequest: the containers' requests summed,
\* raised to each init container's, plus the overhead.
podRequestOf(pod) ==
    LET summed == AddAll(<<>>, pod.Containers)
        maxed == SetMaxAll(summed, pod.InitContainers)
    IN  IF pod.Overhead # NoOverhead THEN AddScalars(maxed, pod.Overhead[1]) ELSE maxed

computePodBatchRequest(pod) ==
    LET scalar == podRequestOf(pod)
        legacy == [MilliCPU |-> IF KoordBatchCPU \in DOMAIN scalar THEN scalar[KoordBatchCPU] ELSE 0,
                   Memory |-> IF KoordBatchMemory \in DOMAIN scalar THEN scalar[KoordBatchMemory] ELSE 0]
    IN  [MilliCPU |-> IF BatchCPU \in DOMAIN scalar THEN scalar[BatchCPU] ELSE legacy.MilliCPU,
         Memory |-> IF BatchMemory \in DOMAIN scalar THEN scalar[BatchMemory] ELSE legacy.Memory]

computeNodeBatchAllocatableMutant(nodeInfo) ==
    LET scalar == nodeInfo.Allocatable
    IN  [MilliCPU |-> MapGet(scalar, BatchCPU) + MapGet(scalar, KoordBatchCPU),
         Memory |-> MapGet(scalar, BatchMemory) + MapGet(scalar, KoordBatchMemory)]

computeNodeBatchAllocatable(nodeInfo) ==
    LET scalar == nodeInfo.Allocatable
        legacy == [MilliCPU |-> IF KoordBatchCPU \in DOMAIN scalar THEN scalar[KoordBatchCPU] ELSE 0,
                   Memory |-> IF KoordBatchMemory \in DOMAIN scalar THEN scalar[KoordBatchMemory] ELSE 0]
    IN  [MilliCPU |-> IF BatchCPU \in DOMAIN scalar THEN scalar[BatchCPU] ELSE legacy.MilliCPU,
         Memory |-> IF BatchMemory \in DOMAIN scalar THEN scalar[BatchMemory] ELSE legacy.Memory]

computeNodeBatchRequested(nodeInfo) ==
    LET scalar == nodeInfo.Requested
        cpu1 == IF BatchCPU \in DOMAIN scalar THEN 0 + scalar[BatchCPU] ELSE 0
        cpu2 == IF KoordBatchCPU \in DOMAIN scalar THEN cpu1 + scalar[KoordBatchCPU] ELSE cpu1
        mem1 == IF BatchMemory \in DOMAIN scalar THEN 0 + scalar[BatchMemory] ELSE 0
        mem2 == IF KoordBatchMemory \in DOMAIN scalar THEN mem1 + scalar[KoordBatchMemory] ELSE mem1
    IN  [MilliCPU |-> cpu2, Memory |-> mem2]

InsufficientResource(resourceName, reason, requested, used, capacity) ==
    [ResourceName |-> resourceName, Reason |-> reason,
     Requested |-> requested, Used |-> used, Capacity |-> capacity]

fitsRequestMutant(pod, nodeInfo) ==
    LET podBatchRequest == computePodBatchRequest(pod)
        nodeRequested == computeNodeBatchRequested(nodeInfo)
        nodeAllocatable == computeNodeBatchAllocatable(nodeInfo)
    IN  IF podBatchRequest.MilliCPU = 0 /\ podBatchRequest.Memory = 0 THEN <<>>
        ELSE IF podBatchRequest.MilliCPU > nodeAllocatable.MilliCPU - nodeRequested.MilliCPU
        THEN <<InsufficientResource(BatchCPU, "Insufficient batch cpu", podBatchRequest.MilliCPU,
                                    nodeRequested.MilliCPU, nodeAllocatable.MilliCPU)>>
        ELSE IF podBatchRequest.Memory > nodeAllocatable.Memory - nodeRequested.Memory
        THEN <<InsufficientResource(BatchMemory, "Insufficient batch memory", podBatchRequest.Memory,
                                    nodeRequested.Memory, nodeAllocatable.Memory)>>
        ELSE <<>>

\* The insufficiency records, in the order they are appended; empty (nil)
\* when the pod fits.
fitsRequest(pod, nodeInfo) ==
    LET podBatchRequest == computePodBatchRequest(pod)
        nodeRequested == computeNodeBatchRequested(nodeInfo)
        nodeAllocatable == computeNodeBatchAllocatable(nodeInfo)
        cpu == IF podBatchRequest.MilliCPU > nodeAllocatable.MilliCPU - nodeRequested.MilliCPU
               THEN <<InsufficientResource(BatchCPU, "Insufficient batch cpu", podBatchRequest.MilliCPU,
                                           nodeRequested.MilliCPU, nodeAllocatable.MilliCPU)>>
               ELSE <<>>
        memory == IF podBatchRequest.Memory > nodeAllocatable.Memory - nodeRequested.Memory
                  THEN <<InsufficientResource(BatchMemory, "Insufficient batch memory", podBatchRequest.Memory,
                                              nodeRequested.Memory, nodeAllocatable.Memory)>>
                  ELSE <<>>
    IN  IF podBatchRequest.MilliCPU = 0 /\ podBatchRequest.Memory = 0 THEN <<>>
        ELSE cpu \o memory

----------------------------------------------------------------------------
(* SpecBatch: the batch filter's functions on drawn inputs *)

BatchAmounts == {150 * k : k \in 0..MaxBatchSteps} \cup {800, 1000}

BatchNames == {BatchCPU, BatchMemory, KoordBatchCPU, KoordBatchMemory}
CurrentNames == {BatchCPU, BatchMemory}
LegacyNames == {KoordBatchCPU, KoordBatchMemory}

OneContainer(requests) == [Containers |-> <<requests>>, InitContainers |-> <<>>, Overhead |-> NoOverhead]

\* Pods of one container requesting under one naming generation, and pods
\* with two containers, an init container or an overhead.
BatchPods ==
    {OneContainer(m) : m \in MapsFrom(CurrentNames, BatchAmounts) \cup MapsFrom(LegacyNames, BatchAmounts)}
    \cup {[Containers |-> <<(BatchCPU :> 150), (BatchCPU :> 150)>>, InitContainers |-> init, Overhead |-> overhead] :
            init \in {<<>>, <<(BatchCPU :> 800)>>, <<(BatchCPU :> 150)>>},
            overhead \in {NoOverhead, <<(BatchCPU :> 150)>>, <<(BatchMemory :> 150)>>}}

FilterNodeInfos ==
    {[Allocatable |-> a, Requested |-> r] :
        a \in MapsFrom(CurrentNames, BatchAmounts), r \in MapsFrom(CurrentNames, BatchAmounts)}

BatchInit ==
    /\ TrackerUnused
    /\ ret = NoRet
    /\ \/ \E pod \in BatchPods, nodeInfo \in FilterNodeInfos :
            args = [fn |-> "fitsRequest", pod |-> pod, nodeInfo |-> nodeInfo]
       \/ \E a \in MapsFrom(BatchNames, BatchAmounts) :
            args = [fn |-> "computeNodeBatchAllocatable", nodeInfo |-> [Allocatable |-> a, Requested |-> <<>>]]
       \/ \E r \in MapsFrom(BatchNames, BatchAmounts) :
            args = [fn |-> "computeNodeBatchRequested", nodeInfo |-> [Allocatable |-> <<>>, Requested |-> r]]

CallFitsRequest ==
    /\ ret = NoRet
    /\ args.fn = "fitsRequest"
    /\ ret' = [op |-> "fitsRequest", insufficientResources |-> fitsRequest(args.pod, args.nodeInfo)]
    /\ UNCHANGED <<podInfoItems, now, args, apiPods, cycle, events, reported>>

CallComputeNodeBatchAllocatable ==
    /\ ret = NoRet
    /\ args.fn = "computeNodeBatchAllocatable"
    /\ ret' = [op |-> "computeNodeBatchAllocatable", batchResource |-> computeNodeBatchAllocatable(args.nodeInfo)]
    /\ UNCHANGED <<podInfoItems, now, args, apiPods, cycle, events, reported>>

CallComputeNodeBatchRequested ==
    /\ ret = NoRet
    /\ args.fn = "computeNodeBatchRequested"
    /\ ret' = [op |-> "computeNodeBatchRequested", batchResource |-> computeNodeBatchRequested(args.nodeInfo)]
    /\ UNCHANGED <<podInfoItems, now, args, apiPods, cycle, events, reported>>

BatchNext == CallFitsRequest \/ CallComputeNodeBatchAllocatable \/ CallComputeNodeBatchRequested

SpecBatch == BatchInit /\ [][BatchNext]_vars

----------------------------------------------------------------------------
(* Claims about the batch filter (checked under SpecBatch) *)

RecordsFor(resourceName) ==
    {i \in 1..Len(ret.insufficientResources) :
        ret.insufficientResources[i].ResourceName = resourceName}

\* C9: for a pod with non-zero batch demand, an insufficiency record for
\* batch cpu is reported iff demandCPU > allocatableCPU - requestedCPU and
\* one for batch memory iff demandMemory > allocatableMemory -
\* requestedMemory, each independently of the other, each carrying
\* Requested = demand, Used = node requested, Capacity = node allocatable;
\* a pod whose demand is (0, 0) is admitted on every node.
C9_FitsRequest ==
    ret.op = "fitsRequest" =>
        LET demand == computePodBatchRequest(args.pod)
            allocCPU == MapGet(args.nodeInfo.Allocatable, "kubernetes.io/batch-cpu")
            allocMemory == MapGet(args.nodeInfo.Allocatable, "kubernetes.io/batch-memory")
            usedCPU == MapGet(args.nodeInfo.Requested, "kubernetes.io/batch-cpu")
            usedMemory == MapGet(args.nodeInfo.Requested, "kubernetes.io/batch-memory")
            recs == ret.insufficientResources
        IN  IF demand.MilliCPU = 0 /\ demand.Memory = 0
            THEN recs = <<>>
            ELSE /\ Cardinality(RecordsFor("kubernetes.io/batch-cpu")) =
                        IF demand.MilliCPU > allocCPU - usedCPU THEN 1 ELSE 0
                 /\ Cardinality(RecordsFor("kubernetes.io/batch-memory")) =
                        IF demand.Memory > allocMemory - usedMemory THEN 1 ELSE 0
                 /\ \A i \in RecordsFor("kubernetes.io/batch-cpu") :
                        /\ recs[i].Requested = demand.MilliCPU
                        /\ recs[i].Used = usedCPU
                        /\ recs[i].Capacity = allocCPU
                 /\ \A i \in RecordsFor("kubernetes.io/batch-memory") :
                        /\ recs[i].Requested = demand.Memory
                        /\ recs[i].Used = usedMemory
                        /\ recs[i].Capacity = allocMemory
                 /\ Len(recs) = Cardinality(RecordsFor("kubernetes.io/batch-cpu"))
                                   + Cardinality(RecordsFor("kubernetes.io/batch-memory"))

\* Allocatable 1000m, requested 800m, demand 300m: rejected with (300, 800, 1000).
C9_Witness ==
    /\ ret.op = "fitsRequest"
    /\ args.pod = OneContainer(BatchCPU :> 300)
    /\ args.nodeInfo = [Allocatable |-> (BatchCPU :> 1000), Requested |-> (BatchCPU :> 800)]
    /\ Len(ret.insufficientResources) = 1
    /\ ret.insufficientResources[1].ResourceName = BatchCPU
    /\ ret.insufficientResources[1].Requested = 300
    /\ ret.insufficientResources[1].Used = 800
    /\ ret.insufficientResources[1].Capacity = 1000

\* The value under the current name when declared, else under the legacy name, else 0.
CurrentElseLegacy(m, current, legacy) ==
    IF current \in DOMAIN m THEN m[current] ELSE IF legacy \in DOMAIN m THEN m[legacy] ELSE 0

\* C10: the node's batch allocatable is the value under the current name
\* when it is declared, otherwise the value under the legacy name, otherwise
\* 0 (never the sum); the node's batch requested is the sum of the values
\* under the legacy and the current name.
C10_DualNaming ==
    /\ ret.op = "computeNodeBatchAllocatable" =>
         /\ ret.batchResource.MilliCPU =
              CurrentElseLegacy(args.nodeInfo.Allocatable, "kubernetes.io/batch-cpu", "koordinator.sh/batch-cpu")
         /\ ret.batchResource.Memory =
              CurrentElseLegacy(args.nodeInfo.Allocatable, "kubernetes.io/batch-memory", "koordinator.sh/batch-memory")
    /\ ret.op = "computeNodeBatchRequested" =>
         /\ ret.batchResource.MilliCPU =
              MapGet(args.nodeInfo.Requested, "kubernetes.io/batch-cpu")
                + MapGet(args.nodeInfo.Requested, "koordinator.sh/batch-cpu")
         /\ ret.batchResource.Memory =
              MapGet(args.nodeInfo.Requested, "kubernetes.io/batch-memory")
                + MapGet(args.nodeInfo.Requested, "koordinator.sh/batch-memory")

\* Both names declared for cpu: the current one is the allocatable.
C10_Witness ==
    /\ ret.op = "computeNodeBatchAllocatable"
    /\ args.nodeInfo.Allocatable = (BatchCPU :> 300) @@ (KoordBatchCPU :> 150)
    /\ ret.batchResource = [MilliCPU |-> 300, Memory |-> 0]

----------------------------------------------------------------------------
(* Time, pods and plugin arguments *)

\* time.Second, in ticks of half a second.
Second == 2

DefaultNodeMetricReportInterval == 60 * Second

\* time.Time.After, Before and Sub.
After(t, u) == t > u
Before(t, u) == t < u
Sub(t, u) == t - u

Nodes == {"n1", "n2"}
Pods == {"p1", "p2"}

PriorityProd == "koord-prod"
PriorityBatch == "koord-batch"

\* The pods of the model, as resourceapi.PodRequestsAndLimits and
\* extension.GetPriorityClass see them: p1 is a prod pod with request =
\* limit (100m cpu, 100 memory); p2 is a batch pod requesting 400 batch-cpu
\* and 50 batch-memory; p3 declares nothing.
PodObjects ==
    [p1 |-> [requests |-> [cpu |-> 100, memory |-> 100000],
             limits |-> [cpu |-> 100, memory |-> 100000],
             priorityClass |-> PriorityProd],
     p2 |-> [requests |-> (BatchCPU :> 400000) @@ (BatchMemory :> 50000),
             limits |-> (BatchCPU :> 400000) @@ (BatchMemory :> 50000),
             priorityClass |-> PriorityBatch],
     p3 |-> [requests |-> <<>>, limits |-> <<>>, priorityClass |-> PriorityProd]]

\* extension.TranslateResourceNameByPriorityClass: a batch pod's cpu and
\* memory are accounted under the batch resource names.
TranslateResourceNameByPriorityClass(priorityClass, resourceName) ==
    IF priorityClass = PriorityBatch /\ resourceName = ResourceCPU THEN BatchCPU
    ELSE IF priorityClass = PriorityBatch /\ resourceName = ResourceMemory THEN BatchMemory
    ELSE resourceName

\* LoadAwareSchedulingArgs: the weights and scaling factors of the model,
\* with the given NodeMetricExpirationSeconds (Nil when not set).
PluginArgs(expiration) ==
    [ResourceWeights |-> [cpu |-> 1, memory |-> 1],
     EstimatedScalingFactors |-> [cpu |-> 85, memory |-> 70],
     NodeMetricExpirationSeconds |-> expiration]

estimatedPodUsed(pod, resourceWeights, scalingFactors) ==
    [resourceName \in DOMAIN resourceWeights |->
        estimatedUsedByResource(
            PodObjects[pod].requests, PodObjects[pod].limits,
            TranslateResourceNameByPriorityClass(PodObjects[pod].priorityClass, resourceName),
            MapGet(scalingFactors, resourceName))]

----------------------------------------------------------------------------
(* The pending estimate of the assignment tracker *)

\* A NodeMetric: updateTime is Nil or Ptr(t); collectPolicy is Nil or
\* Ptr of a policy whose ReportIntervalSeconds is Nil or Ptr(seconds);
\* usage is Nil or Ptr of the reported usage (Status.NodeMetric).
NodeMetric(updateTime, collectPolicy, usage) ==
    [Spec |-> [CollectPolicy |-> collectPolicy],
     Status |-> [UpdateTime |-> updateTime, NodeMetric |-> usage]]

getNodeMetricReportInterval(nodeMetric) ==
    IF nodeMetric.Spec.CollectPolicy = Nil
       \/ Deref(nodeMetric.Spec.CollectPolicy).ReportIntervalSeconds = Nil
    THEN DefaultNodeMetricReportInterval
    ELSE Deref(Deref(nodeMetric.Spec.CollectPolicy).ReportIntervalSeconds) * Second

\* p.podAssignCache.podInfoItems[nodeName]: empty for a node without an entry.
ItemsOf(nodeName) ==
    IF nodeName \in DOMAIN podInfoItems THEN podInfoItems[nodeName] ELSE <<>>

notYetReflectedMutant(assignInfo, updateTime, nodeMetricReportInterval) ==
    \/ After(assignInfo.timestamp, updateTime)
    \/ /\ Before(assignInfo.timestamp, updateTime)
       /\ Sub(updateTime, assignInfo.timestamp) <= nodeMetricReportInterval

\* The condition under which estimatedAssignedPodUsage counts a record.
notYetReflected(assignInfo, updateTime, nodeMetricReportInterval) ==
    \/ After(assignInfo.timestamp, updateTime)
    \/ /\ Before(assignInfo.timestamp, updateTime)
       /\ Sub(updateTime, assignInfo.timestamp) < nodeMetricReportInterval

\* estimatedUsed[resourceName] += value, for every entry of estimated.
AddInto(estimatedUsed, estimated) ==
    [resourceName \in DOMAIN estimatedUsed \cup DOMAIN estimated |->
        MapGet(estimatedUsed, resourceName) + MapGet(estimated, resourceName)]

RECURSIVE assignedLoop(_, _, _, _, _)
assignedLoop(items, estimatedUsed, updateTime, nodeMetricReportInterval, pluginArgs) ==
    IF items = <<>> THEN estimatedUsed
    ELSE LET assignInfo == Head(items)
             estimated == estimatedPodUsed(assignInfo.pod, pluginArgs.ResourceWeights,
                                           pluginArgs.EstimatedScalingFactors)
         IN  assignedLoop(Tail(items),
                          IF notYetReflected(assignInfo, updateTime, nodeMetricReportInterval)
                          THEN AddInto(estimatedUsed, estimated)
                          ELSE estimatedUsed,
                          updateTime, nodeMetricReportInterval, pluginArgs)

\* The loop dereferences nodeMetric.Status.UpdateTime for every record: with
\* a nil UpdateTime and a record of the node, the call panics.
estimatedAssignedPodUsage(nodeName, nodeMetric, pluginArgs) ==
    IF ItemsOf(nodeName) # <<>> /\ nodeMetric.Status.UpdateTime = Nil
    THEN [panic |-> TRUE]
    ELSE [panic |-> FALSE,
          estimatedUsed |->
            IF ItemsOf(nodeName) = <<>> THEN <<>>
            ELSE assignedLoop(ItemsOf(nodeName), <<>>, Deref(nodeMetric.Status.UpdateTime),
                              getNodeMetricReportInterval(nodeMetric), pluginArgs)]

----------------------------------------------------------------------------
(* SpecPending: estimatedAssignedPodUsage on drawn tracker states and snapshots *)

\* The snapshot's update time in the drawn inputs: late enough for a record
\* two default intervals older.
SnapshotTime == 2 * DefaultNodeMetricReportInterval

\* The report intervals a snapshot can have, in ticks.
Intervals == {DefaultNodeMetricReportInterval} \cup {k * Second : k \in 0..MaxIntervalSeconds}

\* Assignment times around the snapshot time T: at and next to T, T - I,
\* T - I/2 and T - 2I for every interval I.
RecordTimes(T) ==
    UNION {{T - 2 * I, T - I - 1, T - I, T - I + 1, T - (I \div 2), T - 1, T, T + 1, T + Second} :
            I \in Intervals}

\* Where each pod is recorded: nowhere (<<>>), or <<node, timestamp>>.
Placements(times) == [Pods -> {<<>>} \cup (Nodes \X times)]

\* The orders in which the pods can appear in a node's list.
Orders == {ord \in [1..Cardinality(Pods) -> Pods] : \A i, j \in DOMAIN ord : i # j => ord[i] # ord[j]}

RECURSIVE ItemsFrom(_, _, _)
ItemsFrom(ord, placement, nodeName) ==
    IF ord = <<>> THEN <<>>
    ELSE LET pod == Head(ord)
         IN  (IF placement[pod] # <<>> /\ placement[pod][1] = nodeName
              THEN <<[pod |-> pod, timestamp |-> placement[pod][2]]>>
              ELSE <<>>) \o ItemsFrom(Tail(ord), placement, nodeName)

\* The tracker states with every pod recorded at most once.
Trackers(times) ==
    {[nodeName \in Nodes |-> ItemsFrom(ord, placement, nodeName)] :
        ord \in Orders, placement \in Placements(times)}

CollectPolicies ==
    {Nil, Ptr([ReportIntervalSeconds |-> Nil])}
    \cup {Ptr([ReportIntervalSeconds |-> Ptr(k)]) : k \in 0..MaxIntervalSeconds}

PendingInit ==
    /\ podInfoItems \in Trackers(RecordTimes(SnapshotTime))
    /\ now = SnapshotTime + Second
    /\ LifecycleUnused
    /\ ret = NoRet
    /\ \E nodeName \in Nodes, collectPolicy \in CollectPolicies :
         args = [nodeName |-> nodeName,
                 nodeMetric |-> NodeMetric(Ptr(SnapshotTime), collectPolicy, Nil),
                 pluginArgs |-> PluginArgs(Nil)]

CallEstimatedAssignedPodUsage ==
    /\ ret = NoRet
    /\ ret' = [op |-> "estimatedAssignedPodUsage",
               result |-> estimatedAssignedPodUsage(args.nodeName, args.nodeMetric, args.pluginArgs)]
    /\ UNCHANGED <<podInfoItems, now, args, apiPods, cycle, events, reported>>

PendingNext == CallEstimatedAssignedPodUsage

SpecPending == PendingInit /\ [][PendingNext]_vars

----------------------------------------------------------------------------
(* Claims about the pending estimate (checked under SpecPending) *)

\* The snapshot's update time and effective report interval (declared, else 60s).
ArgUpdateTime == Deref(args.nodeMetric.Status.UpdateTime)
ArgInterval ==
    LET policy == args.nodeMetric.Spec.CollectPolicy
    IN  IF policy # Nil /\ Deref(policy).ReportIntervalSeconds # Nil
        THEN Deref(Deref(policy).ReportIntervalSeconds) * Second
        ELSE 60 * Second

\* The estimator's output for the records at the given indexes, summed.
RECURSIVE EstimateSum(_, _, _)
EstimateSum(indexes, items, resourceName) ==
    IF indexes = {} THEN 0
    ELSE LET i == CHOOSE x \in indexes : TRUE
         IN  estimatedPodUsed(items[i].pod, args.pluginArgs.ResourceWeights,
                              args.pluginArgs.EstimatedScalingFactors)[resourceName]
             + EstimateSum(indexes \ {i}, items, resourceName)

\* The pending estimate against the inclusion rule; the lone record at
\* T - I/2 is required to be counted when I >= minInterval.
PendingEstimateRule(minInterval) ==
    ret.op = "estimatedAssignedPodUsage" =>
        LET T == ArgUpdateTime
            I == ArgInterval
            items == ItemsOf(args.nodeName)
            counted == {i \in 1..Len(items) :
                          \/ items[i].timestamp > T
                          \/ items[i].timestamp < T /\ T - items[i].timestamp < I}
            Lone(t) == Len(items) = 1 /\ items[1].timestamp = t
            LoneEstimate(r) == estimatedPodUsed(items[1].pod, args.pluginArgs.ResourceWeights,
                                                args.pluginArgs.EstimatedScalingFactors)[r]
        IN  /\ ~ret.result.panic
            /\ \A r \in {"cpu", "memory"} :
                 /\ MapGet(ret.result.estimatedUsed, r) = EstimateSum(counted, items, r)
                 /\ (I >= minInterval /\ Lone(T - (I \div 2))) =>
                        MapGet(ret.result.estimatedUsed, r) = LoneEstimate(r)
                 /\ Lone(T + Second) => MapGet(ret.result.estimatedUsed, r) = LoneEstimate(r)
                 /\ Lone(T - 2 * I) => MapGet(ret.result.estimatedUsed, r) = 0

----------------------------------------------------------------------------
(* Score *)

\* time.Since(t)
Since(t) == now - t

\* isNodeMetricExpired without the nodeMetricExpirationSeconds > 0 condition.
isNodeMetricExpiredMutant(nodeMetric, nodeMetricExpirationSeconds) ==
    \/ nodeMetric = Nil
    \/ Deref(nodeMetric).Status.UpdateTime = Nil
    \/ Since(Deref(Deref(nodeMetric).Status.UpdateTime)) >= nodeMetricExpirationSeconds * Second

\* nodeMetric is Nil or Ptr of a NodeMetric.
isNodeMetricExpired(nodeMetric, nodeMetricExpirationSeconds) ==
    \/ nodeMetric = Nil
    \/ Deref(nodeMetric).Status.UpdateTime = Nil
    \/ /\ nodeMetricExpirationSeconds > 0
       /\ Since(Deref(Deref(nodeMetric).Status.UpdateTime)) >= nodeMetricExpirationSeconds * Second

\* What Score returns; status "nil" is success.
ScoreResult(score, status) == [panic |-> FALSE, score |-> score, status |-> status]

\* corev1.ResourceCPU is read in milli-units, every other resource in whole units.
QuantityOf(resourceName, quantity) ==
    IF resourceName = ResourceCPU THEN MilliValue(quantity) ELSE Value(quantity)

\* The tail of Score, from estimatedPodUsed on: the candidate's estimate,
\* the tracker's pending estimate and the reported usage against the node's
\* allocatable.
scoreNode(pod, nodeName, node, nodeMetric, pluginArgs) ==
    LET weights == pluginArgs.ResourceWeights
        podUsed == estimatedPodUsed(pod, weights, pluginArgs.EstimatedScalingFactors)
        assigned == estimatedAssignedPodUsage(nodeName, nodeMetric, pluginArgs)
    IN  IF assigned.panic THEN [panic |-> TRUE]
        ELSE LET withAssigned == AddInto(podUsed, assigned.estimatedUsed)
                 allocatable == [r \in DOMAIN weights |->
                                    QuantityOf(r, MapGet(node.Status.Allocatable, r))]
                 nodeUsage == IF nodeMetric.Status.NodeMetric # Nil
                             THEN [r \in DOMAIN weights |->
                                     QuantityOf(r, MapGet(Deref(nodeMetric.Status.NodeMetric).NodeUsage, r))]
                             ELSE <<>>
                 estimatedUsed == AddInto(withAssigned, nodeUsage)
             IN  ScoreResult(loadAwareSchedulingScorer(weights, estimatedUsed, allocatable), "nil")

\* nodeInfoGet is what the snapshot lister returns ([err, node], node Nil
\* or Ptr of the node), nodeMetricGet what the NodeMetric lister returns
\* ([err, nodeMetric]); err is "nil", "NotFound" or "Error".
Score(pod, nodeName, nodeInfoGet, nodeMetricGet, pluginArgs) ==
    IF nodeInfoGet.err # "nil" THEN ScoreResult(0, "Error")
    ELSE IF nodeInfoGet.node = Nil THEN ScoreResult(0, "Error")
    ELSE IF nodeMetricGet.err = "NotFound" THEN ScoreResult(0, "nil")
    ELSE IF nodeMetricGet.err # "nil" THEN ScoreResult(0, "Error")
    ELSE IF /\ pluginArgs.NodeMetricExpirationSeconds # Nil
            /\ isNodeMetricExpired(Ptr(nodeMetricGet.nodeMetric),
                                   Deref(pluginArgs.NodeMetricExpirationSeconds))
         THEN ScoreResult(0, "nil")
    ELSE scoreNode(pod, nodeName, Deref(nodeInfoGet.node), nodeMetricGet.nodeMetric, pluginArgs)

----------------------------------------------------------------------------
(* SpecScore: Score on drawn tracker states, snapshots and arguments *)

\* The node of the model: 1 cpu, 1000 units of memory allocatable.
NodeObject == [Status |-> [Allocatable |-> [cpu |-> 1000, memory |-> 1000000]]]

\* The usage a snapshot reports: 200m cpu, 300 units of memory.
ReportedUsage == [NodeUsage |-> [cpu |-> 200, memory |-> 300000]]

NodeInfoGets == {[err |-> "Error", node |-> Nil], [err |-> "nil", node |-> Nil],
                 [err |-> "nil", node |-> Ptr(NodeObject)]}

ScoreSnapshots ==
    {NodeMetric(updateTime, collectPolicy, usage) :
        updateTime \in {Nil, Ptr(SnapshotTime)},
        collectPolicy \in {Nil, Ptr([ReportIntervalSeconds |-> Ptr(1)])},
        usage \in {Nil, Ptr(ReportedUsage)}}

NodeMetricGets ==
    {[err |-> e, nodeMetric |-> Nil] : e \in {"NotFound", "Error"}}
    \cup {[err |-> "nil", nodeMetric |-> nodeMetric] : nodeMetric \in ScoreSnapshots}

ExpirationSettings == {Nil} \cup {Ptr(k) : k \in 0..MaxExpirationSeconds}

ScoreInit ==
    /\ podInfoItems \in Trackers({SnapshotTime - Second, SnapshotTime + Second})
    /\ now \in {SnapshotTime + k * Second : k \in 1..(MaxExpirationSeconds + 1)}
    /\ LifecycleUnused
    /\ ret = NoRet
    /\ \E pod \in DOMAIN PodObjects, nodeName \in Nodes, expiration \in ExpirationSettings :
         \E nodeInfoGet \in NodeInfoGets, nodeMetricGet \in NodeMetricGets :
            /\ (nodeInfoGet.node = Nil => nodeMetricGet.err = "NotFound")
            /\ args = [pod |-> pod, nodeName |-> nodeName, nodeInfoGet |-> nodeInfoGet,
                       nodeMetricGet |-> nodeMetricGet, pluginArgs |-> PluginArgs(expiration)]

CallScore ==
    /\ ret = NoRet
    /\ ret' = [op |-> "Score",
               result |-> Score(args.pod, args.nodeName, args.nodeInfoGet,
                                args.nodeMetricGet, args.pluginArgs)]
    /\ UNCHANGED <<podInfoItems, now, args, apiPods, cycle, events, reported>>

ScoreNext == CallScore

SpecScore == ScoreInit /\ [][ScoreNext]_vars

----------------------------------------------------------------------------
(* Claims about Score (checked under SpecScore) *)

\* Score got a node and a snapshot, and the snapshot is expired: it has no
\* update timestamp, or an expiration of s > 0 seconds is configured and the
\* snapshot is at least s seconds old.
ScoredExpiredSnapshot ==
    /\ ret.op = "Score"
    /\ args.nodeInfoGet.err = "nil" /\ args.nodeInfoGet.node # Nil
    /\ args.nodeMetricGet.err = "nil"
    /\ LET updateTime == args.nodeMetricGet.nodeMetric.Status.UpdateTime
           expiration == args.pluginArgs.NodeMetricExpirationSeconds
       IN  \/ updateTime = Nil
           \/ /\ expiration # Nil
              /\ expiration[1] > 0
              /\ now - updateTime[1] >= expiration[1] * Second

\* C8: for every plugin configuration (one with no expiration setting
\* included) and every tracker state, Score on a node whose snapshot is
\* expired completes with score 0 and no error; it never fails or crashes.
C8_ExpiredSnapshotScoresZero ==
    ScoredExpiredSnapshot =>
        /\ ~ret.result.panic
        /\ ret.result.score = 0
        /\ ret.result.status = "nil"

----------------------------------------------------------------------------
(* The assignment tracker (podAssignCache) and the plugin's Reserve / Unreserve *)

RECURSIVE Without(_, _)
\* The records of items other than pod's, in order.
Without(items, pod) ==
    IF items = <<>> THEN <<>>
    ELSE IF Head(items).pod = pod THEN Without(Tail(items), pod)
    ELSE <<Head(items)>> \o Without(Tail(items), pod)

\* podAssignCache.assign: the node's list with the pod's record inserted,
\* stamped with the current time (a record the node already holds for the
\* pod is replaced).
assign(nodeName, pod) ==
    (nodeName :> Append(Without(ItemsOf(nodeName), pod), [pod |-> pod, timestamp |-> now]))
        @@ podInfoItems

\* unAssign dropping every record of the node.
unAssignMutant(nodeName, pod) ==
    IF nodeName \in DOMAIN podInfoItems
    THEN [podInfoItems EXCEPT ![nodeName] = <<>>]
    ELSE podInfoItems

\* podAssignCache.unAssign: the node's list without the pod's record; a
\* no-op when there is none.
unAssign(nodeName, pod) ==
    IF nodeName \in DOMAIN podInfoItems
    THEN [podInfoItems EXCEPT ![nodeName] = Without(@, pod)]
    ELSE podInfoItems

\* Plugin.Reserve: the new podInfoItems.
PluginReserve(pod, nodeName) == assign(nodeName, pod)

\* Plugin.Unreserve: the new podInfoItems.
PluginUnreserve(pod, nodeName) == unAssign(nodeName, pod)

\* The informer's handler (New registers the cache as the pods' event
\* handler): a delete, or an update reporting the pod's departure,
\* unassigns the pod from the node the notification names; an add or any
\* other update leaves the tracker alone.
OnEvent(event) ==
    IF event.type = "delete" \/ (event.type = "update" /\ event.departed)
    THEN unAssign(event.nodeName, event.pod)
    ELSE podInfoItems

----------------------------------------------------------------------------
(* Spec: the scheduling loop, the cluster and the informer around the tracker *)

NoNode == ""

Event(type, pod, nodeName, departed) ==
    [type |-> type, pod |-> pod, nodeName |-> nodeName, departed |-> departed]

Init ==
    /\ podInfoItems = <<>>
    /\ now = 0
    /\ args = <<>>
    /\ ret = NoRet
    /\ apiPods = [p \in Pods |-> [phase |-> "none", nodeName |-> NoNode]]
    /\ cycle = [p \in Pods |-> [stage |-> "idle", nodeName |-> NoNode]]
    /\ events = <<>>
    /\ reported = {}

\* A pod is created, unbound.
CreatePod(pod) ==
    /\ apiPods[pod].phase = "none"
    /\ apiPods' = [apiPods EXCEPT ![pod].phase = "Pending"]
    /\ events' = Append(events, Event("add", pod, NoNode, FALSE))
    /\ UNCHANGED <<podInfoItems, now, args, ret, cycle, reported>>

\* The scheduling loop takes an unbound pod from its queue.
PopPod(pod) ==
    /\ cycle[pod].stage = "idle"
    /\ apiPods[pod].phase = "Pending" /\ apiPods[pod].nodeName = NoNode
    /\ cycle' = [cycle EXCEPT ![pod].stage = "scheduling"]
    /\ UNCHANGED <<podInfoItems, now, args, ret, apiPods, events, reported>>

\* The scheduling loop picked nodeName for the pod and runs the Reserve plugins.
Reserve(pod, nodeName) ==
    /\ cycle[pod].stage = "scheduling"
    /\ podInfoItems' = PluginReserve(pod, nodeName)
    /\ cycle' = [cycle EXCEPT ![pod] = [stage |-> "reserved", nodeName |-> nodeName]]
    /\ UNCHANGED <<now, args, ret, apiPods, events, reported>>

\* The binding cycle failed (a permit or bind error, or the pod is gone):
\* the Unreserve plugins run, and the pod goes back to the queue.
Unreserve(pod) ==
    /\ cycle[pod].stage = "reserved"
    /\ podInfoItems' = PluginUnreserve(pod, cycle[pod].nodeName)
    /\ cycle' = [cycle EXCEPT ![pod] = [stage |-> "idle", nodeName |-> NoNode]]
    /\ UNCHANGED <<now, args, ret, apiPods, events, reported>>

\* The binding succeeded: the pod is bound to the reserved node.
BindPod(pod) ==
    /\ cycle[pod].stage = "reserved"
    /\ apiPods[pod].phase = "Pending"
    /\ apiPods' = [apiPods EXCEPT ![pod].nodeName = cycle[pod].nodeName]
    /\ cycle' = [cycle EXCEPT ![pod].stage = "bound"]
    /\ events' = Append(events, Event("update", pod, cycle[pod].nodeName, FALSE))
    /\ UNCHANGED <<podInfoItems, now, args, ret, reported>>

\* A bound pod terminates: it departs from its node.
TerminatePod(pod) ==
    /\ apiPods[pod].phase = "Pending" /\ apiPods[pod].nodeName # NoNode
    /\ apiPods' = [apiPods EXCEPT ![pod].phase = "Terminated"]
    /\ events' = Append(events, Event("update", pod, apiPods[pod].nodeName, TRUE))
    /\ UNCHANGED <<podInfoItems, now, args, ret, cycle, reported>>

\* A pod is deleted, bound or not.
DeletePod(pod) ==
    /\ apiPods[pod].phase \in {"Pending", "Terminated"}
    /\ apiPods' = [apiPods EXCEPT ![pod].phase = "Deleted"]
    /\ events' = Append(events, Event("delete", pod, apiPods[pod].nodeName, FALSE))
    /\ UNCHANGED <<podInfoItems, now, args, ret, cycle, reported>>

\* The informer delivers its oldest notification to the tracker.
DeliverEvent ==
    /\ events # <<>>
    /\ podInfoItems' = OnEvent(Head(events))
    /\ reported' = IF Head(events).type = "delete" \/ Head(events).departed
                   THEN reported \cup {Head(events).pod}
                   ELSE reported
    /\ events' = Tail(events)
    /\ UNCHANGED <<now, args, ret, apiPods, cycle>>

Tick ==
    /\ now < MaxNow
    /\ now' = now + 1
    /\ UNCHANGED <<podInfoItems, args, ret, apiPods, cycle, events, reported>>

Next ==
    \/ \E pod \in Pods : CreatePod(pod)
    \/ \E pod \in Pods : PopPod(pod)
    \/ \E pod \in Pods, nodeName \in Nodes : Reserve(pod, nodeName)
    \/ \E pod \in Pods : Unreserve(pod)
    \/ \E pod \in Pods : BindPod(pod)
    \/ \E pod \in Pods : TerminatePod(pod)
    \/ \E pod \in Pods : DeletePod(pod)
    \/ DeliverEvent
    \/ Tick

Spec == Init /\ [][Next]_vars

----------------------------------------------------------------------------
(* Claims about the tracker (checked under Spec) *)

\* The nodes whose record list holds a record of the pod.
HoldersOf(pod) ==
    {nodeName \in DOMAIN podInfoItems :
        \E i \in 1..Len(podInfoItems[nodeName]) : podInfoItems[nodeName][i].pod = pod}

\* C1: after any interleaving of Reserve, Unreserve and the lifecycle
\* notifications, every pod is in at most one node's record list, and the
\* tracker holds no record for a pod whose deletion or departure the
\* notifications have already reported.
C1_TrackerInvariant ==
    /\ \A pod \in Pods : Cardinality(HoldersOf(pod)) <= 1
    /\ \A pod \in reported : HoldersOf(pod) = {}

\* The notification makes the tracker unassign its pod from the node it names.
Unassigning(event) == event.type = "delete" \/ (event.type = "update" /\ event.departed)

\* A step in which the tracker runs unAssign(nodeName, pod): Unreserve of
\* the pod reserved on the node, or the delivery of an unassigning
\* notification that names them.
UnassignStep(nodeName, pod) ==
    \/ Unreserve(pod) /\ cycle[pod].nodeName = nodeName
    \/ /\ DeliverEvent
       /\ Unassigning(Head(events))
       /\ Head(events).pod = pod
       /\ Head(events).nodeName = nodeName

\* The tracker state with the pod's record on the node taken out and
\* nothing else touched.
OnlyRecordRemoved(nodeName, pod) ==
    [n \in DOMAIN podInfoItems |->
        IF n = nodeName
        THEN SelectSeq(podInfoItems[n], LAMBDA assignInfo : assignInfo.pod # pod)
        ELSE podInfoItems[n]]

\* C11: in every reachable tracker state, unAssign(node, pod) for a pod with
\* no record on the node leaves the whole tracker unchanged; every step that
\* unassigns a pod from a node (Unreserve, a delete or departure
\* notification) leaves the node without a record of the pod, so that a
\* second unassign of the same pod changes nothing, and keeps every record
\* of another pod or another node.
C11_UnassignIdempotent ==
    /\ [](\A nodeName \in Nodes \cup {NoNode}, pod \in Pods :
            nodeName \notin HoldersOf(pod) => unAssign(nodeName, pod) = podInfoItems)
    /\ [][\A nodeName \in Nodes \cup {NoNode}, pod \in Pods :
            UnassignStep(nodeName, pod) =>
                /\ podInfoItems' = OnlyRecordRemoved(nodeName, pod)
                /\ nodeName \notin HoldersOf(pod)'
                /\ (nodeName \notin HoldersOf(pod) => podInfoItems' = podInfoItems)]_vars

\* p1 was bound to n1, its departure was delivered and unassigned it, and
\* its delete notification, naming n1 again, is the next to be delivered,
\* while n1 still holds the record of p2.
C11_Witness ==
    /\ "p1" \in reported
    /\ events # <<>>
    /\ Head(events) = Event("delete", "p1", "n1", FALSE)
    /\ HoldersOf("p1") = {}
    /\ HoldersOf("p2") = {"n1"}

----------------------------------------------------------------------------
(* SpecExpired: isNodeMetricExpired on drawn snapshots, settings and clocks *)

\* The nodeMetricExpirationSeconds of the drawn calls: negative, zero and positive.
ExpirationSeconds == -1..MaxExpirationSeconds

\* The clock of the drawn calls, in ticks: just before the snapshot's update
\* time, and from it to one second past the longest expiration.
ExpiredClocks == {SnapshotTime - 1} \cup {SnapshotTime + k : k \in 0..((MaxExpirationSeconds + 1) * Second)}

ExpiredInit ==
    /\ podInfoItems = <<>>
    /\ now \in ExpiredClocks
    /\ LifecycleUnused
    /\ ret = NoRet
    /\ \E nodeMetric \in {Nil} \cup {Ptr(snapshot) : snapshot \in ScoreSnapshots},
          nodeMetricExpirationSeconds \in ExpirationSeconds :
         args = [nodeMetric |-> nodeMetric,
                 nodeMetricExpirationSeconds |-> nodeMetricExpirationSeconds]

CallIsNodeMetricExpired ==
    /\ ret = NoRet
    /\ ret' = [op |-> "isNodeMetricExpired",
               result |-> isNodeMetricExpired(args.nodeMetric, args.nodeMetricExpirationSeconds)]
    /\ UNCHANGED <<podInfoItems, now, args, apiPods, cycle, events, reported>>

ExpiredNext == CallIsNodeMetricExpired

SpecExpired == ExpiredInit /\ [][ExpiredNext]_vars

----------------------------------------------------------------------------
(* Claims about isNodeMetricExpired (checked under SpecExpired) *)

\* The snapshot of the call is there and carries an update timestamp.
HasUpdateTime == args.nodeMetric # Nil /\ args.nodeMetric[1].Status.UpdateTime # Nil

\* The ticks elapsed since the snapshot's update timestamp (two ticks a second).
ElapsedTicks == now - args.nodeMetric[1].Status.UpdateTime[1]

\* C12: isNodeMetricExpired is true when the snapshot is absent or has no
\* update timestamp; for a snapshot with an update timestamp it is false
\* whenever nodeMetricExpirationSeconds <= 0, whatever the snapshot's age,
\* and for nodeMetricExpirationSeconds > 0 it is true exactly when the time
\* elapsed since the update timestamp is at least that many seconds.
C12_IsNodeMetricExpired ==
    ret.op = "isNodeMetricExpired" =>
        /\ ~HasUpdateTime => ret.result = TRUE
        /\ (HasUpdateTime /\ args.nodeMetricExpirationSeconds <= 0) => ret.result = FALSE
        /\ (HasUpdateTime /\ args.nodeMetricExpirationSeconds > 0) =>
              (ret.result <=> ElapsedTicks >= args.nodeMetricExpirationSeconds * 2)

\* An expiration of 0 seconds and a snapshot older than the longest
\* positive expiration of the drawn calls: not expired.
C12_Witness ==
    /\ ret.op = "isNodeMetricExpired"
    /\ HasUpdateTime
    /\ args.nodeMetricExpirationSeconds = 0
    /\ ElapsedTicks > MaxExpirationSeconds * 2
    /\ ret.result = FALSE

----------------------------------------------------------------------------
(* Monotonicity of the pending estimate (checked under SpecPending) *)

\* The sets of records of the node, by index, that hold every record at
\* least as late as one of their own.
LaterClosed(items) ==
    {counted \in SUBSET (1..Len(items)) :
        \A i \in counted, j \in 1..Len(items) :
            items[j].timestamp >= items[i].timestamp => j \in counted}

\* C13: for a snapshot with a reporting interval I > 0, the records the
\* pending estimate counts are closed under later assignment: when a record
\* with timestamp t is counted, every record of the same node with a
\* timestamp t' >= t is counted as well, a record assigned at exactly the
\* snapshot's update time included; the estimate is the estimator's output
\* summed over such a set of the node's records.
C13_MonotoneInclusion ==
    (ret.op = "estimatedAssignedPodUsage" /\ ArgInterval > 0) =>
        /\ ~ret.result.panic
        /\ \E counted \in LaterClosed(ItemsOf(args.nodeName)) :
              \A r \in {"cpu", "memory"} :
                 MapGet(ret.result.estimatedUsed, r)
                    = EstimateSum(counted, ItemsOf(args.nodeName), r)

====
